---------------------------- MODULE Spec2Model ----------------------------
(***************************************************************************)
(* Model of the SmartExam / Q-Verifier compiler sources:                   *)
(*   compiler/semantic.c     validate_marks, classify_difficulty, main     *)
(*   compiler/ast.h          QuestionNode, ASTNode                         *)
(*   compiler/ast_helpers.c  create_ast_node, create_question_node,        *)
(*                           append_question, free_ast, export_ast_to_dot  *)
(*   compiler/main.c         the driver                                    *)
(* C strings are sequences of one-character strings.                       *)
(***************************************************************************)
EXTENDS Integers, Sequences, FiniteSets, TLC

VARIABLES
    \* ---- semantic.c (a stand-alone utility with its own main) ----
    q_list,          \* the Question list handed to validate_marks (marks, in list order)
    declared_total,  \* validate_marks' second argument
    vm,              \* validate_marks' result <<[sum, ret]>>, or NoCall
    q_text,          \* the text handed to classify_difficulty
    cd,              \* classify_difficulty's result <<tier>>, or NoCall
    sem_out,         \* what semantic.c's main printed
    \* ---- main.c + ast_helpers.c (the driver) ----
    pc,              \* the driver's position in main
    argc,            \* main's argc
    yyin,            \* the input stream: "NULL", "open" or "closed"
    parse_result,    \* yyparse's return value <<r>>, NoCall before it returned
    root,            \* the global ASTNode* root: NULL or the address of the ASTNode
    ast,             \* the ASTNode <<[subject, ...]>> root points to, or NoCall
    nodes,           \* the heap of QuestionNodes: address -> record
    list_head,       \* the parser's question list under construction
    new_question,    \* a created question not yet appended (NULL: none)
    live,            \* the live heap allocations
    appended,        \* the questions handed to append_question, in call order
    dot,             \* <job>/ast.dot: whether it exists, and its statements
    exit_status      \* the driver's exit status <<s>>, NoCall while it runs

sem_vars == <<q_list, declared_total, vm, q_text, cd, sem_out>>
drv_vars == <<pc, argc, yyin, parse_result, root, ast, nodes, list_head,
              new_question, live, appended, dot, exit_status>>
vars == <<q_list, declared_total, vm, q_text, cd, sem_out,
          pc, argc, yyin, parse_result, root, ast, nodes, list_head,
          new_question, live, appended, dot, exit_status>>

NoCall == <<>>       \* no value yet; a value v is held as <<v>>
NULL == 0           \* the null pointer; heap addresses are 1, 2, ...

(***************************************************************************)
(* Bounds of the model.                                                    *)
(***************************************************************************)
MaxListLen == 3      \* questions in a list handed to validate_marks
MaxMark == 2         \* marks range over -1..MaxMark, and 10 and 12 (main's example)
MaxTotal == 4        \* declared totals range over 0..MaxTotal, and 22 and 32
MaxWords == 2        \* words in a generated question text
MaxQuestions == 3    \* questions the parser builds in one job

(***************************************************************************)
(* String literals of the sources.                                         *)
(***************************************************************************)
KW_define == <<"d","e","f","i","n","e">>
KW_state == <<"s","t","a","t","e">>
KW_explain == <<"e","x","p","l","a","i","n">>
KW_prove == <<"p","r","o","v","e">>
KW_design == <<"d","e","s","i","g","n">>
KW_construct == <<"c","o","n","s","t","r","u","c","t">>
KW_optimize == <<"o","p","t","i","m","i","z","e">>
Q1_text == <<"D","e","f","i","n","e"," ","c","o","m","p","i","l","e","r"," ","a","n","d"," ","i","n","t","e","r","p","r","e","t","e","r",".">>
Q2_text == <<"E","x","p","l","a","i","n"," ","t","h","e"," ","p","h","a","s","e","s"," ","o","f"," ","c","o","m","p","i","l","e","r"," ","d","e","s","i","g","n",".">>
Q3_text == <<"C","o","n","s","t","r","u","c","t"," ","D","F","A"," ","f","o","r"," ","(","a","|","b",")","*","a","b","b",".">>

(***************************************************************************)
(* semantic.c                                                              *)
(***************************************************************************)

\* strstr(haystack, needle) != NULL, as libc computes it: the 1-based index of
\* the first occurrence of needle in haystack, 0 for NULL (no occurrence).
RECURSIVE StrstrFrom(_, _, _)
StrstrFrom(haystack, needle, i) ==
    IF i + Len(needle) - 1 > Len(haystack) THEN 0
    ELSE IF SubSeq(haystack, i, i + Len(needle) - 1) = needle THEN i
    ELSE StrstrFrom(haystack, needle, i + 1)

strstr(haystack, needle) == StrstrFrom(haystack, needle, 1)

\* The while loop of validate_marks: sum += ptr->marks; ptr = ptr->next.
\* sum is a C int; the marks the calls are checked on keep it within int range.
RECURSIVE SumLoop(_, _)
SumLoop(ptr, sum) ==
    IF ptr = <<>> THEN sum
    ELSE SumLoop(Tail(ptr), sum + Head(ptr).marks)

\* A plausible slip: the loop stops at the last node (while (ptr->next)).
RECURSIVE SumLoopSkipLast(_, _)
SumLoopSkipLast(ptr, sum) ==
    IF Len(ptr) <= 1 THEN sum
    ELSE SumLoopSkipLast(Tail(ptr), sum + Head(ptr).marks)

validate_marks_skip_last(head, total) ==
    LET sum == SumLoopSkipLast(head, 0)
    IN  [sum |-> sum, ret |-> IF sum = total THEN 1 ELSE 0]

validate_marks(head, total) ==
    LET sum == SumLoop(head, 0)
    IN  [sum |-> sum, ret |-> IF sum = total THEN 1 ELSE 0]

\* Mutant: the second and third rule swapped.
classify_difficulty_swapped(text) ==
    IF strstr(text, KW_define) # 0 \/ strstr(text, KW_state) # 0 THEN "EASY"
    ELSE IF strstr(text, KW_design) # 0 \/ strstr(text, KW_construct) # 0
            \/ strstr(text, KW_optimize) # 0 THEN "HARD"
    ELSE IF strstr(text, KW_explain) # 0 \/ strstr(text, KW_prove) # 0 THEN "MEDIUM"
    ELSE "MEDIUM"

classify_difficulty(text) ==
    IF strstr(text, KW_define) # 0 \/ strstr(text, KW_state) # 0 THEN "EASY"
    ELSE IF strstr(text, KW_explain) # 0 \/ strstr(text, KW_prove) # 0 THEN "MEDIUM"
    ELSE IF strstr(text, KW_design) # 0 \/ strstr(text, KW_construct) # 0
            \/ strstr(text, KW_optimize) # 0 THEN "HARD"
    ELSE "MEDIUM"


\* ---- the inputs the calls are checked on ----
W_Define == <<"D","e","f","i","n","e">>
W_Explain == <<"E","x","p","l","a","i","n">>
W_Construct == <<"C","o","n","s","t","r","u","c","t">>
W_list == <<"l","i","s","t">>
W_restate == <<"r","e","s","t","a","t","e">>
Summarize_text == <<"S","u","m","m","a","r","i","z","e"," ","t","h","e"," ","t","o","p","i","c",".">>

Vocabulary ==
    {KW_define, KW_state, KW_explain, KW_prove, KW_design, KW_construct,
     KW_optimize, W_Define, W_Explain, W_Construct, W_list, W_restate}

\* The words of ws joined by single spaces.
RECURSIVE JoinWords(_)
JoinWords(ws) ==
    IF Len(ws) = 0 THEN <<>>
    ELSE IF Len(ws) = 1 THEN ws[1]
    ELSE ws[1] \o <<" ">> \o JoinWords(Tail(ws))

Texts ==
    {JoinWords(ws) : ws \in UNION {[1..n -> Vocabulary] : n \in 1..MaxWords}}
        \cup {Q1_text, Q2_text, Q3_text, Summarize_text}

MarkValues == (-1..MaxMark) \cup {10, 12}
Totals == (0..MaxTotal) \cup {22, 32}

\* The lists of up to MaxListLen Question structs, linked in this order (only
\* the marks field is read by validate_marks).
QuestionLists ==
    UNION {[1..n -> {[marks |-> m] : m \in MarkValues}] : n \in 0..MaxListLen}

\* semantic.c main's q1 -> q2 -> q3 (number, text, marks).
ExampleQuestions ==
    << [number |-> 1, text |-> Q1_text, marks |-> 10],
       [number |-> 2, text |-> Q2_text, marks |-> 10],
       [number |-> 3, text |-> Q3_text, marks |-> 12] >>

SemIdle ==
    /\ q_list = <<>>
    /\ declared_total = 0
    /\ vm = NoCall
    /\ q_text = <<>>
    /\ cd = NoCall
    /\ sem_out = <<>>

\* One call validate_marks(head, total), in a fresh process.
CallValidateMarks ==
    /\ SemIdle
    /\ \E head \in QuestionLists, total \in Totals :
        /\ q_list' = head
        /\ declared_total' = total
        /\ vm' = <<validate_marks(head, total)>>
        /\ q_text' = <<>>
        /\ cd' = NoCall
        /\ sem_out' = <<>>
        /\ UNCHANGED drv_vars

\* One call classify_difficulty(text), in a fresh process.
CallClassifyDifficulty ==
    /\ SemIdle
    /\ \E text \in Texts :
        /\ q_text' = text
        /\ cd' = <<classify_difficulty(text)>>
        /\ q_list' = <<>>
        /\ declared_total' = 0
        /\ vm' = NoCall
        /\ sem_out' = <<>>
        /\ UNCHANGED drv_vars

\* semantic.c's main: validate_marks(&q1, 32), then the difficulty of q1 and q3
\* is printed.
SemanticMain ==
    /\ SemIdle
    /\ q_list' = ExampleQuestions
    /\ declared_total' = 32
    /\ vm' = <<validate_marks(ExampleQuestions, 32)>>
    /\ q_text' = ExampleQuestions[3].text
    /\ cd' = <<classify_difficulty(ExampleQuestions[3].text)>>
    /\ sem_out' = << [line |-> "Q1 difficulty", text |-> ExampleQuestions[1].text,
                      difficulty |-> classify_difficulty(ExampleQuestions[1].text)],
                     [line |-> "Q3 difficulty", text |-> ExampleQuestions[3].text,
                      difficulty |-> classify_difficulty(ExampleQuestions[3].text)] >>
    /\ UNCHANGED drv_vars


(***************************************************************************)
(* ast.h, ast_helpers.c                                                    *)
(***************************************************************************)
NA == <<"N","/","A">>
LABEL_Q_TEXT == <<"Q","_","T","E","X","T",":"," ">>
TODO_Substring == <<"T","O","D","O",":"," ","S","u","b","s","t","r","i","n","g">>
LABEL_Q_MARKS == <<".",".",".","\\","n","Q","_","M","A","R","K","S",":"," ">>
ROOT_HDR == <<"Q","-","V","e","r","i","f","i","e","r"," ","A","S","T","\\","n","S","u","b","j","e","c","t",":"," ">>
ROOT_MARKS == <<"\\","n","M","a","r","k","s",":"," ">>
ROOT_TIME == <<"\\","n","T","i","m","e",":"," ">>
ROOT_MIN == <<" ","m","i","n">>
ID_root == <<"r","o","o","t">>

\* printf's %d.
DecimalDigits == <<"0","1","2","3","4","5","6","7","8","9">>

RECURSIVE FormatInt(_)
FormatInt(n) ==
    IF n < 0 THEN <<"-">> \o FormatInt(-n)
    ELSE IF n < 10 THEN <<DecimalDigits[n + 1]>>
    ELSE FormatInt(n \div 10) \o <<DecimalDigits[(n % 10) + 1]>>

\* One heap allocation: who made it, which field it backs, of which node.
Alloc(by, what, of) == [by |-> by, what |-> what, of |-> of]

\* malloc: a fresh address.
FreshAddress(heap) == Cardinality(DOMAIN heap) + 1

\* create_question_node(text, marks): the node, its four strdup'ed strings; the
\* parser's text string is freed.
create_question_node(heap, lv, text, marks) ==
    LET node == FreshAddress(heap)
    IN  [nodes |-> (node :> [text |-> text,
                             marks |-> marks,
                             difficulty |-> NA,
                             estimated_time |-> 0,
                             syllabus_topic |-> NA,
                             status_flag |-> 0,
                             blooms_level |-> NA,
                             next |-> NULL]) @@ heap,
         live |-> (lv \cup {Alloc("create_question_node", f, node) :
                              f \in {"node", "text", "difficulty",
                                     "syllabus_topic", "blooms_level"}})
                    \ {Alloc("parser", "text", node)},
         node |-> node]

\* create_ast_node(subject, marks, time, syllabus_path, questions): the node
\* and two strdup'ed strings; the parser's two strings are freed.
create_ast_node(heap, lv, subject, marks, time, syllabus_path, questions) ==
    LET node == FreshAddress(heap)
    IN  [ast |-> [subject |-> subject,
                  total_marks |-> marks,
                  total_time |-> time,
                  syllabus_path |-> syllabus_path,
                  questions |-> questions],
         live |-> (lv \cup {Alloc("create_ast_node", f, node) :
                              f \in {"node", "subject", "syllabus_path"}})
                    \ {Alloc("parser", "subject", node),
                       Alloc("parser", "syllabus_path", node)},
         node |-> node]

\* The while loop of append_question: the node whose next is NULL.
RECURSIVE FindTail(_, _)
FindTail(heap, current) ==
    IF heap[current].next = NULL THEN current
    ELSE FindTail(heap, heap[current].next)

\* A plausible slip: no traversal, the new question is linked behind the head.
append_question_no_traversal(heap, head, new) ==
    IF head = NULL THEN [nodes |-> heap, head |-> new]
    ELSE [nodes |-> [heap EXCEPT ![head].next = new], head |-> head]

append_question(heap, head, new) ==
    IF head = NULL THEN [nodes |-> heap, head |-> new]
    ELSE [nodes |-> [heap EXCEPT ![FindTail(heap, head)].next = new],
          head |-> head]

\* free_ast(root): frees the ASTNode alone.
free_ast(lv, r) ==
    IF r = NULL THEN lv
    ELSE lv \ {Alloc("create_ast_node", "node", r)}

\* The while loop of export_ast_to_dot: a node and an edge statement per
\* question, numbered from i.
RECURSIVE ExportQuestions(_, _, _)
ExportQuestions(heap, q, i) ==
    IF q = NULL THEN <<>>
    ELSE << [stmt |-> "node",
             id |-> <<"q">> \o FormatInt(i),
             label |-> LABEL_Q_TEXT \o TODO_Substring \o LABEL_Q_MARKS
                           \o FormatInt(heap[q].marks)],
            [stmt |-> "edge", from |-> ID_root, to |-> <<"q">> \o FormatInt(i)] >>
         \o ExportQuestions(heap, heap[q].next, i + 1)

\* A plausible slip: i is never incremented.
RECURSIVE ExportQuestionsSameId(_, _, _)
ExportQuestionsSameId(heap, q, i) ==
    IF q = NULL THEN <<>>
    ELSE << [stmt |-> "node",
             id |-> <<"q">> \o FormatInt(i),
             label |-> LABEL_Q_TEXT \o TODO_Substring \o LABEL_Q_MARKS
                           \o FormatInt(heap[q].marks)],
            [stmt |-> "edge", from |-> ID_root, to |-> <<"q">> \o FormatInt(i)] >>
         \o ExportQuestionsSameId(heap, heap[q].next, i)

export_ast_to_dot_same_id(r, heap, f, old) ==
    IF f = "NULL" THEN old
    ELSE [exists |-> TRUE, stmts |->
         << [stmt |-> "digraph"], [stmt |-> "node_defaults"],
            [stmt |-> "node", id |-> ID_root,
             label |-> ROOT_HDR \o r.subject \o ROOT_MARKS \o FormatInt(r.total_marks)
                           \o ROOT_TIME \o FormatInt(r.total_time) \o ROOT_MIN] >>
         \o ExportQuestionsSameId(heap, r.questions, 0)
         \o << [stmt |-> "close"] >> ]

\* export_ast_to_dot(root, filepath); f is what fopen(filepath, "w") returned
\* and old the file as it was.
export_ast_to_dot(r, heap, f, old) ==
    IF f = "NULL" THEN old
    ELSE [exists |-> TRUE, stmts |->
         << [stmt |-> "digraph"], [stmt |-> "node_defaults"],
            [stmt |-> "node", id |-> ID_root,
             label |-> ROOT_HDR \o r.subject \o ROOT_MARKS \o FormatInt(r.total_marks)
                           \o ROOT_TIME \o FormatInt(r.total_time) \o ROOT_MIN] >>
         \o ExportQuestions(heap, r.questions, 0)
         \o << [stmt |-> "close"] >> ]


(***************************************************************************)
(* main.c: the driver.  yyparse (parser.y) is outside the sources at hand; *)
(* it is modelled as the parser the helpers are written for: it creates a  *)
(* question node per question, appends it to its list, and on acceptance   *)
(* builds the ASTNode and sets root.                                       *)
(***************************************************************************)
NoFile == [exists |-> FALSE, stmts |-> <<>>]

T_state_a == <<"s","t","a","t","e"," ","a">>
T_state_b == <<"s","t","a","t","e"," ","b">>
T_a_State == <<"a"," ","S","t","a","t","e">>
S_CS == <<"C","S">>
S_syllabus == <<"c","s",".","t","x","t">>

DriverTexts == {T_state_a, T_state_b, T_a_State}
DriverMarks == {5, 10}
DriverTotals == {0, 20}

DrvInit ==
    /\ pc = "start"
    /\ argc = 0
    /\ yyin = "NULL"
    /\ parse_result = NoCall
    /\ root = NULL
    /\ ast = NoCall
    /\ nodes = <<>>
    /\ list_head = NULL
    /\ new_question = NULL
    /\ live = {}
    /\ appended = <<>>
    /\ dot = NoFile
    /\ exit_status = NoCall

Init == SemIdle /\ DrvInit

\* main.c:32-38: the argument check.
MainArgs ==
    /\ pc = "start"
    /\ \E n \in 1..3 :
         /\ argc' = n
         /\ IF n # 2
            THEN pc' = "exited" /\ exit_status' = <<1>>
            ELSE pc' = "open_input" /\ UNCHANGED exit_status
    /\ UNCHANGED <<yyin, parse_result, root, ast, nodes, list_head, new_question,
                   live, appended, dot>>
    /\ UNCHANGED sem_vars

\* main.c:41-48: fopen(input_path, "r").
MainOpenInput ==
    /\ pc = "open_input"
    /\ \E f \in {"NULL", "open"} :
         /\ yyin' = f
         /\ IF f = "NULL"
            THEN pc' = "exited" /\ exit_status' = <<1>>
            ELSE pc' = "parsing" /\ UNCHANGED exit_status
    /\ UNCHANGED <<argc, parse_result, root, ast, nodes, list_head, new_question,
                   live, appended, dot>>
    /\ UNCHANGED sem_vars

\* yyparse reduces a question: create_question_node(text, marks).
ParseQuestion ==
    /\ pc = "parsing"
    /\ new_question = NULL
    /\ Cardinality(DOMAIN nodes) < MaxQuestions
    /\ \E text \in DriverTexts, marks \in DriverMarks :
         LET made == create_question_node(
                         nodes,
                         live \cup {Alloc("parser", "text", FreshAddress(nodes))},
                         text, marks)
         IN  /\ nodes' = made.nodes
             /\ live' = made.live
             /\ new_question' = made.node
    /\ UNCHANGED <<pc, argc, yyin, parse_result, root, ast, list_head, appended,
                   dot, exit_status>>
    /\ UNCHANGED sem_vars

\* yyparse extends its list: append_question(list_head, new_question).
ParseAppend ==
    /\ pc = "parsing"
    /\ new_question # NULL
    /\ LET done == append_question(nodes, list_head, new_question)
       IN  /\ nodes' = done.nodes
           /\ list_head' = done.head
    /\ appended' = Append(appended, new_question)
    /\ new_question' = NULL
    /\ UNCHANGED <<pc, argc, yyin, parse_result, root, ast, live, dot, exit_status>>
    /\ UNCHANGED sem_vars

\* yyparse reduces the paper: create_ast_node(...), root is set; it returns 0,
\* or 1 when an error follows the reduction.
ParseDocument ==
    /\ pc = "parsing"
    /\ new_question = NULL
    /\ \E total \in DriverTotals, r \in {0, 1} :
         LET at == FreshAddress(nodes)
             made == create_ast_node(
                         nodes,
                         live \cup {Alloc("parser", "subject", at),
                                    Alloc("parser", "syllabus_path", at)},
                         S_CS, total, 60, S_syllabus, list_head)
         IN  /\ ast' = <<made.ast>>
             /\ live' = made.live
             /\ root' = made.node
             /\ parse_result' = <<r>>
    /\ pc' = "parsed"
    /\ UNCHANGED <<argc, yyin, nodes, list_head, new_question, appended, dot,
                   exit_status>>
    /\ UNCHANGED sem_vars

\* yyparse returns without having built a Document: root stays NULL.
ParseNoDocument ==
    /\ pc = "parsing"
    /\ \E r \in {0, 1} : parse_result' = <<r>>
    /\ pc' = "parsed"
    /\ UNCHANGED <<argc, yyin, root, ast, nodes, list_head, new_question, live,
                   appended, dot, exit_status>>
    /\ UNCHANGED sem_vars

\* A plausible slip: && for ||.
ParseFailedBothNeeded(result, r) == result # 0 /\ r = NULL

\* main.c:65: if (parse_result != 0 || root == NULL).
ParseFailed(result, r) == result # 0 \/ r = NULL

\* main.c:60-70: fclose(yyin), then the check of the parse.
MainCheckParse ==
    /\ pc = "parsed"
    /\ yyin' = "closed"
    /\ IF ParseFailed(parse_result[1], root)
       THEN pc' = "exited" /\ exit_status' = <<1>>
       ELSE pc' = "export" /\ UNCHANGED exit_status
    /\ UNCHANGED <<argc, parse_result, root, ast, nodes, list_head, new_question,
                   live, appended, dot>>
    /\ UNCHANGED sem_vars

\* main.c:72-76: export_ast_to_dot(root, dot_path); a NULL root is dereferenced
\* there (the process dies of it).
MainExport ==
    /\ pc = "export"
    /\ IF root = NULL
       THEN /\ pc' = "exited"
            /\ exit_status' = <<139>>
            /\ UNCHANGED dot
       ELSE /\ \E f \in {"NULL", "open"} :
                 dot' = export_ast_to_dot(ast[1], nodes, f, dot)
            /\ pc' = "cleanup"
            /\ UNCHANGED exit_status
    /\ UNCHANGED <<argc, yyin, parse_result, root, ast, nodes, list_head,
                   new_question, live, appended>>
    /\ UNCHANGED sem_vars

\* main.c:86-90: free_ast(root); return 0.
MainCleanup ==
    /\ pc = "cleanup"
    /\ live' = free_ast(live, root)
    /\ pc' = "exited"
    /\ exit_status' = <<0>>
    /\ UNCHANGED <<argc, yyin, parse_result, root, ast, nodes, list_head,
                   new_question, appended, dot>>
    /\ UNCHANGED sem_vars

Next ==
    \/ MainArgs
    \/ MainOpenInput
    \/ ParseQuestion
    \/ ParseAppend
    \/ ParseDocument
    \/ ParseNoDocument
    \/ MainCheckParse
    \/ MainExport
    \/ MainCleanup

\* The driver: one job.
Spec == Init /\ [][Next]_vars

SemNext ==
    \/ CallValidateMarks
    \/ CallClassifyDifficulty
    \/ SemanticMain

\* semantic.c: calls of its two functions, and its main.
SemSpec == Init /\ [][SemNext]_vars


(***************************************************************************)
(* Properties of semantic.c, checked under SemSpec.                        *)
(***************************************************************************)

\* The sum of the marks of the questions at the positions in S, taken in no
\* particular order.
RECURSIVE MarksOver(_, _)
MarksOver(list, S) ==
    IF S = {} THEN 0
    ELSE LET i == CHOOSE j \in S : TRUE
         IN  list[i].marks + MarksOver(list, S \ {i})

ArithmeticSum(list) == MarksOver(list, DOMAIN list)

\* The list reordered by the permutation p of its positions.
Reordered(list, p) == [i \in DOMAIN list |-> list[p[i]]]

\* C1: validate_marks computes the arithmetic sum of the marks of all questions
\* of the list, the same for every permutation of the list, and returns 1
\* exactly when that sum equals the declared total; a declared total of 0 is a
\* mismatch (0) unless the sum is 0 too.
C1_MarksSum ==
    vm # NoCall =>
        /\ vm[1].sum = ArithmeticSum(q_list)
        /\ \A p \in Permutations(DOMAIN q_list) :
               validate_marks(Reordered(q_list, p), declared_total) = vm[1]
        /\ vm[1].ret \in {0, 1}
        /\ vm[1].ret = 1 <=> ArithmeticSum(q_list) = declared_total
        /\ declared_total = 0 /\ ArithmeticSum(q_list) # 0 => vm[1].ret = 0

\* C1's case: a list of several questions with different marks whose sum is
\* not 0, declared total 0, reported as a mismatch.
C1_Witness ==
    /\ vm # NoCall
    /\ Len(q_list) >= 2
    /\ \E i, j \in DOMAIN q_list : q_list[i].marks # q_list[j].marks
    /\ declared_total = 0
    /\ vm[1].sum > 0
    /\ vm[1].ret = 0

UpperCase == <<"A","B","C","D","E","F","G","H","I","J","K","L","M",
               "N","O","P","Q","R","S","T","U","V","W","X","Y","Z">>
LowerCase == <<"a","b","c","d","e","f","g","h","i","j","k","l","m",
               "n","o","p","q","r","s","t","u","v","w","x","y","z">>

ToLowerChar(c) ==
    IF \E i \in DOMAIN UpperCase : UpperCase[i] = c
    THEN LowerCase[CHOOSE i \in DOMAIN UpperCase : UpperCase[i] = c]
    ELSE c

ToLower(text) == [i \in DOMAIN text |-> ToLowerChar(text[i])]

\* keyword occurs somewhere in text, letter for letter.
Occurs(keyword, text) ==
    \E i \in 1..Len(text) : \E j \in i..Len(text) : SubSeq(text, i, j) = keyword

\* The ordered rules of the classifier.
Rules ==
    << [keywords |-> {KW_define, KW_state}, tier |-> "EASY"],
       [keywords |-> {KW_explain, KW_prove}, tier |-> "MEDIUM"],
       [keywords |-> {KW_design, KW_construct, KW_optimize}, tier |-> "HARD"] >>

MatchingRules(text) ==
    {r \in DOMAIN Rules : \E k \in Rules[r].keywords : Occurs(k, text)}

\* The tier of the earliest rule with a keyword in text, MEDIUM when there is none.
FirstMatch(text) ==
    IF MatchingRules(text) = {} THEN "MEDIUM"
    ELSE Rules[CHOOSE r \in MatchingRules(text) :
                   \A o \in MatchingRules(text) : r <= o].tier

\* C2: keywords are matched case-insensitively: a text containing a rule keyword
\* in any letter case is classified by that rule; "Define compiler and
\* interpreter." is Easy and "Construct DFA for (a|b)*abb." is Hard.
C2_CaseInsensitive ==
    cd # NoCall =>
        /\ cd[1] = FirstMatch(ToLower(q_text))
        /\ q_text = Q3_text => cd[1] = "HARD"
        /\ \A k \in 1..Len(sem_out) :
               /\ sem_out[k].difficulty = FirstMatch(ToLower(sem_out[k].text))
               /\ sem_out[k].text = Q1_text => sem_out[k].difficulty = "EASY"

\* C3: the result is that of the earliest rule with a keyword in the text, even
\* when later rules match too (define and construct: Easy; explain and design,
\* the first rule not matching: Medium); a text matching no rule is Medium; the
\* result is never unset.
C3_FirstMatchWins ==
    cd # NoCall =>
        /\ cd[1] \in {"EASY", "MEDIUM", "HARD"}
        /\ cd[1] = FirstMatch(q_text)
        /\ MatchingRules(q_text) = {} => cd[1] = "MEDIUM"
        /\ Occurs(KW_define, q_text) /\ Occurs(KW_construct, q_text) => cd[1] = "EASY"
        /\ Occurs(KW_explain, q_text) /\ Occurs(KW_design, q_text)
               /\ 1 \notin MatchingRules(q_text) => cd[1] = "MEDIUM"

\* C3's case: a text with a keyword of the second and of the third rule.
C3_Witness ==
    /\ cd # NoCall
    /\ Occurs(KW_explain, q_text)
    /\ Occurs(KW_design, q_text)
    /\ 1 \notin MatchingRules(q_text)
    /\ cd[1] = "MEDIUM"


(***************************************************************************)
(* Properties of the driver, checked under Spec.                           *)
(***************************************************************************)

\* The addresses of the list that starts at head, in link order.
RECURSIVE ListFrom(_, _)
ListFrom(heap, head) ==
    IF head = NULL THEN <<>>
    ELSE <<head>> \o ListFrom(heap, heap[head].next)

\* The questions of the Document root points to, in list order.
DocumentQuestions == ListFrom(nodes, ast[1].questions)

\* The job ran to the end of main.
PipelineCompleted == pc = "exited" /\ exit_status = <<0>>

\* A question's annotation fields are as create_question_node left them.
Unannotated(a) ==
    /\ nodes[a].difficulty = NA
    /\ nodes[a].estimated_time = 0
    /\ nodes[a].syllabus_topic = NA
    /\ nodes[a].status_flag = 0
    /\ nodes[a].blooms_level = NA

\* Difficulty, Bloom's level and syllabus topic have been assigned.
Annotated(a) ==
    /\ nodes[a].difficulty # NA
    /\ nodes[a].syllabus_topic # NA
    /\ nodes[a].blooms_level # NA

C5_ExitStatus ==
    pc = "exited" =>
        /\ exit_status = <<0>> <=>
               (yyin = "closed" /\ parse_result = <<0>> /\ root # NULL /\ dot.exists)
        /\ exit_status # <<0>> => ~ dot.exists

IsRootNode(s) == s.stmt = "node" /\ s.id = ID_root
IsQuestionNode(s) == s.stmt = "node" /\ s.id # ID_root
IsEdge(s) == s.stmt = "edge"

\* One root node, a node q0..q(N-1) per question of the Document in list
\* order, all with different IDs, and the N edges root -> q_i.
DotShape ==
    LET qnodes == SelectSeq(dot.stmts, IsQuestionNode)
        edges == SelectSeq(dot.stmts, IsEdge)
        N == Len(DocumentQuestions)
    IN  /\ Len(SelectSeq(dot.stmts, IsRootNode)) = 1
        /\ Len(qnodes) = N
        /\ \A k \in 1..N : qnodes[k].id = <<"q">> \o FormatInt(k - 1)
        /\ \A k, l \in 1..N : qnodes[k].id = qnodes[l].id => k = l
        /\ Len(edges) = N
        /\ \A k \in 1..N : edges[k].from = ID_root /\ edges[k].to = qnodes[k].id

\* The names of the status_flag values (ast.h:18).
StatusName(flag) ==
    CASE flag = 0 -> <<"O","K">>
      [] flag = 1 -> <<"D","U","P","L","I","C","A","T","E">>
      [] flag = 2 -> <<"O","U","T","_","O","F","_","S","Y","L","L","A","B","U","S">>

Words(text) ==
    LET t == ToLower(text)
    IN  {SubSeq(t, i, j) : <<i, j>> \in
            {<<i, j>> \in (1..Len(t)) \X (1..Len(t)) :
                /\ i <= j
                /\ \A k \in i..j : t[k] # " "
                /\ i = 1 \/ t[i - 1] = " "
                /\ j = Len(t) \/ t[j + 1] = " "}}

\* The token-overlap ratio of a and b is at least th[1] / th[2].
SimilarAtLeast(a, b, th) ==
    Cardinality(Words(a) \cap Words(b)) * th[2]
        >= th[1] * Cardinality(Words(a) \cup Words(b))

\* The thresholds a duplicate detector may fix: ratios in (0, 1].
Thresholds == {th \in (1..4) \X (1..4) : th[1] <= th[2]}

\* The k-th question has an earlier question at least th-similar to it.
DuplicateCandidate(k, th) ==
    \E i \in 1..(k - 1) :
        SimilarAtLeast(nodes[DocumentQuestions[i]].text,
                       nodes[DocumentQuestions[k]].text, th)

Unmatched == <<"u","n","m","a","t","c","h","e","d">>

\* C7: after the pipeline has run, each question's status is Duplicate (1) if
\* it is a duplicate candidate, else OutOfSyllabus (2) if its syllabus topic is
\* unmatched, else OK (0).
C7_StatusPriority ==
    PipelineCompleted =>
        \E th \in Thresholds :
            \A k \in 1..Len(DocumentQuestions) :
                LET q == nodes[DocumentQuestions[k]]
                IN  /\ q.status_flag \in {0, 1, 2}
                    /\ q.status_flag =
                          IF DuplicateCandidate(k, th) THEN 1
                          ELSE IF q.syllabus_topic = Unmatched THEN 2
                          ELSE 0

\* C8: a question is marked Duplicate exactly when an earlier question is
\* similar to it at or above the threshold; the first question is never
\* marked; of two questions with the same text the later one is marked.
C8_DuplicateIffEarlierSimilar ==
    PipelineCompleted =>
        \E th \in Thresholds :
            \A k \in 1..Len(DocumentQuestions) :
                LET q == nodes[DocumentQuestions[k]]
                IN  /\ q.status_flag = 1 <=> DuplicateCandidate(k, th)
                    /\ k = 1 => q.status_flag # 1
                    /\ \A i \in 1..(k - 1) :
                           nodes[DocumentQuestions[i]].text = q.text
                               => q.status_flag = 1

\* The list reachable from the head holds exactly the appended questions in
\* the order of the calls, ends in NULL, and starts at the first one appended.
C9_ListIsAppended ==
    /\ ListFrom(nodes, list_head) = appended
    /\ list_head = (IF appended = <<>> THEN NULL ELSE appended[1])
    /\ \A k \in 1..Len(appended) :
           nodes[appended[k]].next =
               (IF k = Len(appended) THEN NULL ELSE appended[k + 1])

\* A step changes no existing node, except that an append sets the next link of
\* the previous tail to the new question (text, marks and the other links stay).
C9_AppendTouchesTailOnly ==
    \A a \in DOMAIN nodes :
        \/ nodes'[a] = nodes[a]
        \/ /\ appended # <<>>
           /\ a = appended[Len(appended)]
           /\ new_question # NULL
           /\ nodes'[a] = [nodes[a] EXCEPT !.next = new_question]
           /\ appended' = Append(appended, new_question)

\* C9: after any sequence of append_question calls with freshly created nodes,
\* starting from the NULL list, the list from the returned head holds exactly
\* the appended questions in call order, ends in NULL and starts at the first
\* one appended; an append changes only the next link of the previous tail.
C9_AppendPreservesOrder ==
    /\ [] C9_ListIsAppended
    /\ [][C9_AppendTouchesTailOnly]_vars

\* C9's case: a third question was appended to a list of two.
C9_Witness ==
    /\ Len(appended) >= 3
    /\ ListFrom(nodes, list_head) = appended
    /\ new_question = NULL

\* C10: after free_ast returned, no allocation create_ast_node or
\* create_question_node made for the Document is still live.
C10_TeardownReleasesAll ==
    PipelineCompleted =>
        ~ \E a \in live : a.by \in {"create_ast_node", "create_question_node"}

=============================================================================
